---- MODULE Spec2Model ----
(***************************************************************************)
(* PricePulse backend: the product lifecycle handlers (add_product,        *)
(* get_product, delete_product) and the scheduled re-scrape routine        *)
(* track_price of main.py, over the tables of database.py, the scraper of  *)
(* scraper/amazon_scraper.py and the notifier of services/email_service.py.*)
(*                                                                         *)
(* The request handlers run on one event loop and contain no suspension    *)
(* point (the scraper's coroutine blocks in requests.get), so they never   *)
(* interleave with each other; the scheduler runs track_price on its own   *)
(* threads, so its steps interleave with every committed store state a     *)
(* handler produces. A step of the model is one stretch of code between    *)
(* two points where the other side can observe or change the store.        *)
(* A tick is one execution of the body of track_price for a job id; the     *)
(* scheduler runs at most one at a time per job id.                         *)
(***************************************************************************)
EXTENDS Integers, Sequences, FiniteSets, TLC

\* ---- bounds of the model ----
MaxPrice == 2       \* scraped prices range over 0..MaxPrice
MaxTarget == 1      \* target prices range over None and 0..MaxTarget
MaxRows == 2        \* a re-scrape commits only below MaxRows history rows
MaxNotify == 2      \* cap on the count of Notifier invocations

\* ---- values ----
None == -1          \* Python None in a numeric column or field
NoneStr == "None"   \* Python None in a string column or field
AttributeError == "AttributeError"

Users == {"u1", "u2"}
Urls == {"urlA", "urlB"}
ProductIds == {1}   \* the ids the model lets the products table hand out
Prices == 0..MaxPrice
TargetPrices == {None} \cup (0..MaxTarget)

\* bool(v) of Python for a float-or-None and for a str-or-None
TruthyNum(v) == v # None /\ v # 0
TruthyStr(s) == s # NoneStr /\ s # ""

\* ---- the page a requests.get(url) can meet ----
\* title: the text of span#productTitle after strip(), or "missing"
\* price: the number float() reads from span.a-price-whole, "missing" when the
\*        element is absent, "unparsable" when float() raises ValueError
Titles == {"missing", "", "Title"}
PriceTexts == {"missing", "unparsable"} \cup {ToString(n) : n \in Prices}
Unreachable == [reachable |-> FALSE, title |-> "missing", price |-> "missing",
                image |-> NoneStr]
Pages == {Unreachable} \cup
         [reachable : {TRUE}, title : Titles, price : PriceTexts,
          image : {NoneStr}]

\* float(re.sub(r'[^\d.]', '', price_text)) on the digit strings of the model
RECURSIVE ParseFloatUpTo(_, _)
ParseFloatUpTo(text, n) ==
    IF ToString(n) = text THEN n
    ELSE IF n >= MaxPrice THEN None
    ELSE ParseFloatUpTo(text, n + 1)
ParseFloat(text) == ParseFloatUpTo(text, 0)

ErrorResult == [name |-> "Error", price |-> 0, image_url |-> NoneStr]

\* AmazonScraper.scrape_product
scrape_product(page) ==
    IF ~page.reachable THEN ErrorResult
    ELSE IF page.price = "unparsable" THEN ErrorResult
    ELSE [name |-> IF page.title = "missing" THEN "Product Name Not Found"
                   ELSE page.title,
          price |-> IF page.price = "missing" THEN 0 ELSE ParseFloat(page.price),
          image_url |-> page.image]

VARIABLES
    products,       \* table products: id -> row, or NoRow
    price_history,  \* table price_history: product_id -> rows in insertion order
    price_alerts,   \* table price_alerts: product_id -> rows in insertion order
    scheduler,      \* the ids p with a job "track_<p>" in the scheduler
    tick,           \* per job id: the position of a running track_price, the
                    \* target_price of the Product it loaded, the price it
                    \* scraped, and (observation only) whether a delete of the
                    \* product committed while it was running
    request,        \* the foreground request in progress on the event loop
    notifyCalls,    \* how many times send_price_alert has been invoked
    registered,     \* per id: the url and target_price its add_product was given
    alertDue,       \* the ids for which a tick has met a price at or below target
    ev              \* what the last step did (observation only)

vars == <<products, price_history, price_alerts, scheduler, tick, request,
          notifyCalls, registered, alertDue, ev>>


\* An absent row. The clock is abstracted to a logical time per row:
\* last_updated is 0 at the insert, and datetime.utcnow() at an update is a
\* later instant than the one stored.
NoRow == [url |-> NoneStr, name |-> NoneStr, current_price |-> None,
          target_price |-> None, image_url |-> NoneStr, user_id |-> NoneStr,
          last_updated |-> None]

Exists(id) == products[id] # NoRow

IdleTick == [pc |-> "idle", target_price |-> None, price |-> None,
             orphan |-> FALSE]
IdleRequest == [pc |-> "idle", id |-> 0, price |-> None, product |-> NoRow]
NoReg == [url |-> NoneStr, target |-> None]

\* The record of a step: the operation and the product id it acted on, how
\* it ended, the price it scraped or returned, whether an exception left the
\* routine, whether the Notifier was invoked and what it returned, the url
\* and target_price of an add_product request or a get_product response, and
\* the history rows, alert rows and Notifier calls counted before the step
\* (in a get_product response: the history rows returned), whether the page
\* scraped for an add_product had its title and price elements, whether
\* the product was in alertDue before the step, and whether a delete of the
\* product had committed while the tick of the step was running.
NoEv == [op |-> "init", id |-> 0, outcome |-> "none", price |-> None,
         raised |-> FALSE, notified |-> FALSE, sent |-> FALSE,
         url |-> NoneStr, target |-> None, rows |-> 0, alerts |-> 0,
         calls |-> 0, complete |-> TRUE, due |-> FALSE, orphan |-> FALSE]
Event(op, id, outcome) ==
    [NoEv EXCEPT !.op = op, !.id = id, !.outcome = outcome]

Init ==
    /\ products = [id \in ProductIds |-> NoRow]
    /\ price_history = [id \in ProductIds |-> <<>>]
    /\ price_alerts = [id \in ProductIds |-> <<>>]
    /\ scheduler = {}
    /\ tick = [id \in ProductIds |-> IdleTick]
    /\ request = IdleRequest
    /\ notifyCalls = 0
    /\ registered = [id \in ProductIds |-> NoReg]
    /\ alertDue = {}
    /\ ev = NoEv

\* SQLite's rowid for an INTEGER PRIMARY KEY column: one more than the largest
\* id in the table, 1 for an empty table
RECURSIVE MaxOf(_)
MaxOf(S) == IF S = {} THEN 0
            ELSE LET x == CHOOSE y \in S : TRUE
                     m == MaxOf(S \ {x})
                 IN IF x > m THEN x ELSE m
NextId == MaxOf({id \in ProductIds : Exists(id)}) + 1

StoreUnchanged == UNCHANGED <<products, price_history, price_alerts>>

\* ---- add_product (POST /products/) ----

\* The page has a title element and a price element (it may still be blank
\* or unparsable)
PageComplete(page) ==
    page.reachable /\ page.title # "missing" /\ page.price # "missing"

\* line 227: the scraped data is refused
Refused(data) == ~TruthyStr(data.name) \/ ~TruthyNum(data.price)

\* a variant that stores no target_price
NewProduct_NoTarget(user, url, target, data) ==
    [url |-> url, name |-> data.name, current_price |-> data.price,
     target_price |-> None, image_url |-> data.image_url, user_id |-> user,
     last_updated |-> 0]

\* lines 231-238: the Product row of the request
NewProduct(user, url, target, data) ==
    [url |-> url, name |-> data.name, current_price |-> data.price,
     target_price |-> target, image_url |-> data.image_url, user_id |-> user,
     last_updated |-> 0]

\* lines 225-241: scrape, validate, insert the Product row and commit
AddProduct(page) ==
    LET data == scrape_product(page) IN
    /\ request.pc = "idle"
    /\ IF Refused(data)
       THEN /\ ev' = [Event("add_product", 0, "rejected")
                        EXCEPT !.complete = PageComplete(page)]
            /\ UNCHANGED <<products, request, registered>>
       ELSE \E storeOk \in BOOLEAN :
            IF storeOk
            THEN \E user \in Users, url \in Urls, target \in TargetPrices :
                 /\ NextId \in ProductIds
                 /\ products' = [products EXCEPT ![NextId] =
                                    NewProduct(user, url, target, data)]
                 /\ request' = [pc |-> "history", id |-> NextId,
                                price |-> data.price, product |-> NoRow]
                 /\ registered' = [registered EXCEPT ![NextId] =
                                    [url |-> url, target |-> target]]
                 /\ ev' = [Event("add_product", NextId, "inserted")
                             EXCEPT !.price = data.price, !.url = url,
                                    !.target = target,
                                    !.complete = PageComplete(page)]
            ELSE /\ ev' = [Event("add_product", 0, "store_error")
                             EXCEPT !.raised = TRUE,
                                    !.complete = PageComplete(page)]
                 /\ UNCHANGED <<products, request, registered>>
    /\ UNCHANGED <<price_history, price_alerts, scheduler, tick, notifyCalls,
                   alertDue>>

\* lines 243-249: insert the initial PriceHistory row and commit
AddHistory ==
    /\ request.pc = "history"
    /\ \E storeOk \in BOOLEAN :
        IF storeOk
        THEN /\ price_history' = [price_history EXCEPT ![request.id] =
                    Append(@, [price |-> request.price])]
             /\ request' = [request EXCEPT !.pc = "schedule"]
             /\ ev' = [Event("add_history", request.id, "inserted")
                         EXCEPT !.price = request.price]
        ELSE /\ request' = IdleRequest
             /\ ev' = [Event("add_history", request.id, "store_error")
                         EXCEPT !.raised = TRUE]
             /\ UNCHANGED price_history
    /\ UNCHANGED <<products, price_alerts, scheduler, tick, notifyCalls,
                   registered, alertDue>>

\* lines 251-259: scheduler.add_job(track_price, ..., id=f"track_{id}")
AddSchedule ==
    /\ request.pc = "schedule"
    /\ scheduler' = scheduler \cup {request.id}
    /\ request' = IdleRequest
    /\ ev' = Event("add_schedule", request.id, "created")
    /\ UNCHANGED <<products, price_history, price_alerts, tick, notifyCalls,
                   registered, alertDue>>

\* ---- get_product (GET /products/{product_id}) ----

\* lines 274-280: the Product query, filtered by id and owner
GetProduct(user, id) ==
    /\ request.pc = "idle"
    /\ IF Exists(id) /\ products[id].user_id = user
       THEN /\ request' = [pc |-> "get_history", id |-> id, price |-> None,
                           product |-> products[id]]
            /\ ev' = Event("get_product", id, "loaded")
       ELSE /\ ev' = Event("get_product", 0, "not_found")
            /\ UNCHANGED request
    /\ StoreUnchanged
    /\ UNCHANGED <<scheduler, tick, notifyCalls, registered, alertDue>>

\* lines 282-289: the PriceHistory query and the response
GetHistory ==
    /\ request.pc = "get_history"
    /\ request' = IdleRequest
    /\ ev' = [Event("get_history", request.id, "found")
                EXCEPT !.url = request.product.url,
                       !.target = request.product.target_price,
                       !.price = request.product.current_price,
                       !.rows = Len(price_history[request.id])]
    /\ StoreUnchanged
    /\ UNCHANGED <<scheduler, tick, notifyCalls, registered, alertDue>>

\* ---- delete_product (DELETE /products/{product_id}) ----

\* a variant that leaves the child rows in place
DeletedRows_Kept(table, id) == table

\* lines 317-319: the PriceHistory and PriceAlert rows of the product go
DeletedRows(table, id) == [table EXCEPT ![id] = <<>>]

\* a variant that leaves the job in the scheduler
RemovedJob_Kept(id) == scheduler

\* lines 311-315: scheduler.remove_job, a missing job is ignored
RemovedJob(id) == scheduler \ {id}

\* lines 301-329
DeleteProduct(user, id) ==
    /\ request.pc = "idle"
    /\ IF ~(Exists(id) /\ products[id].user_id = user)
       THEN /\ ev' = [Event("delete_product", 0, "not_found")
                        EXCEPT !.raised = TRUE]
            /\ StoreUnchanged
            /\ UNCHANGED <<scheduler, registered, alertDue, tick>>
       ELSE /\ scheduler' = RemovedJob(id)
            /\ \E storeOk \in BOOLEAN :
                IF storeOk
                THEN /\ price_history' = DeletedRows(price_history, id)
                     /\ price_alerts' = DeletedRows(price_alerts, id)
                     /\ products' = [products EXCEPT ![id] = NoRow]
                     /\ registered' = [registered EXCEPT ![id] = NoReg]
                     /\ alertDue' = alertDue \ {id}
                     /\ tick' = [tick EXCEPT ![id].orphan =
                                    (tick[id].pc # "idle")]
                     /\ ev' = [Event("delete_product", id, "deleted")
                                 EXCEPT !.rows = Len(price_history[id])]
                ELSE /\ StoreUnchanged
                     /\ UNCHANGED <<registered, alertDue, tick>>
                     /\ ev' = [Event("delete_product", id, "store_error")
                                 EXCEPT !.raised = TRUE]
    /\ UNCHANGED <<request, notifyCalls>>

\* ---- track_price (the scheduled re-scrape routine) ----

\* attribute access on a mapped Product instance: the columns and
\* relationships of database.py lines 39-52 are its attributes, any other name
\* raises AttributeError
ProductAttrs == {"id", "url", "name", "current_price", "target_price",
                 "image_url", "created_at", "last_updated", "user_id", "user",
                 "price_history", "price_alerts"}
GetAttr(prod, a) == IF a \in ProductAttrs THEN prod[a] ELSE AttributeError

\* lines 358-360: product.target_price and product.email and
\* current_price <= product.target_price, evaluated left to right
AlertCheck(prod, p) ==
    IF ~TruthyNum(prod.target_price) THEN "no"
    ELSE LET email == GetAttr(prod, "email") IN
         IF email = AttributeError THEN "raise"
         ELSE IF ~TruthyStr(email) THEN "no"
         ELSE IF p <= prod.target_price THEN "yes" ELSE "no"

\* lines 363-366: the query for a PriceAlert of the product with is_triggered
ExistingAlert(id) ==
    \E i \in 1..Len(price_alerts[id]) : price_alerts[id][i].is_triggered

\* lines 357-368: the alert is sent and recorded
Fires(id, prod, p) == AlertCheck(prod, p) = "yes" /\ ~ExistingAlert(id)

\* How the body of the try block ends: the AttributeError of line 359, the
\* StaleDataError of the flush when the UPDATE of the loaded Product matches
\* no row, a failing commit, or the commit of line 388
TickOutcome(id, prod, p, storeOk) ==
    IF AlertCheck(prod, p) = "raise" THEN "attribute_error"
    ELSE IF ~Exists(id) THEN "stale"
    ELSE IF ~storeOk THEN "store_error"
    ELSE "committed"

\* a variant whose handler re-raises
Propagates_Reraise(outcome) == outcome # "committed"

\* lines 390-392: except Exception: rollback and print, nothing is re-raised
Propagates(outcome) == FALSE

\* a variant that commits the price update before the rest of the routine
ProductsAfterTick_EarlyCommit(id, p, outcome) ==
    IF outcome \in {"committed", "store_error"}
    THEN [products EXCEPT ![id].current_price = p,
                          ![id].last_updated = @ + 1]
    ELSE products

\* lines 346-348 with the commit of line 388 or the rollback of line 391
ProductsAfterTick(id, p, outcome) ==
    IF outcome = "committed"
    THEN [products EXCEPT ![id].current_price = p,
                          ![id].last_updated = @ + 1]
    ELSE products

\* lines 350-355 with the commit of line 388 or the rollback of line 391
HistoryAfterTick(id, p, outcome) ==
    IF outcome = "committed"
    THEN [price_history EXCEPT ![id] = Append(@, [price |-> p])]
    ELSE price_history

\* lines 379-386 with the commit of line 388 or the rollback of line 391;
\* the value send_price_alert returned is not looked at
AlertsAfterTick(id, prod, p, sent, outcome) ==
    IF outcome = "committed" /\ Fires(id, prod, p)
    THEN [price_alerts EXCEPT ![id] =
            Append(@, [target_price |-> prod.target_price,
                       email |-> GetAttr(prod, "email"),
                       is_triggered |-> TRUE])]
    ELSE price_alerts

\* lines 252-257, 331-333: the scheduler starts the job of product id on a
\* worker thread; a job id has at most one running instance
TrackFire(id) ==
    /\ id \in scheduler
    /\ tick[id].pc = "idle"
    /\ tick' = [tick EXCEPT ![id] = [IdleTick EXCEPT !.pc = "fired"]]
    /\ ev' = Event("track_fire", id, "fired")
    /\ StoreUnchanged
    /\ UNCHANGED <<scheduler, request, notifyCalls, registered, alertDue>>

\* lines 333-337: load the Product, return if it is absent
TrackLoad(id) ==
    /\ tick[id].pc = "fired"
    /\ IF Exists(id)
       THEN /\ tick' = [tick EXCEPT ![id] =
                          [pc |-> "loaded",
                           target_price |-> products[id].target_price,
                           price |-> None, orphan |-> FALSE]]
            /\ ev' = Event("track_load", id, "loaded")
       ELSE /\ tick' = [tick EXCEPT ![id] = IdleTick]
            /\ ev' = Event("track_load", id, "absent")
    /\ StoreUnchanged
    /\ UNCHANGED <<scheduler, request, notifyCalls, registered, alertDue>>

\* a variant that tests "is not None" in place of truthiness
Usable_NotNone(price) == price # None

\* line 341: the scraped price is usable
Usable(price) == TruthyNum(price)

\* lines 339-342: scrape the loaded url, return if there is no usable price
TrackScrape(id) ==
    /\ tick[id].pc = "loaded"
    /\ \E page \in Pages :
        LET data == scrape_product(page) IN
        IF ~Usable(data.price)
        THEN /\ tick' = [tick EXCEPT ![id] = IdleTick]
             /\ ev' = [Event("track_scrape", id, "no_price")
                         EXCEPT !.price = data.price,
                                !.orphan = tick[id].orphan]
        ELSE /\ tick' = [tick EXCEPT ![id].pc = "scraped",
                                     ![id].price = data.price]
             /\ ev' = [Event("track_scrape", id, "scraped")
                         EXCEPT !.price = data.price]
    /\ StoreUnchanged
    /\ UNCHANGED <<scheduler, request, notifyCalls, registered, alertDue>>

\* lines 344-394: update the price, add the history row, evaluate the alert,
\* commit; on any exception roll back
TrackUpdate(id) ==
    LET prod == [target_price |-> tick[id].target_price]
        p == tick[id].price
    IN
    /\ tick[id].pc = "scraped"
    /\ \E storeOk \in BOOLEAN, sent \in BOOLEAN :
        LET outcome == TickOutcome(id, prod, p, storeOk)
            notified == outcome # "attribute_error" /\ Fires(id, prod, p)
            qualifies == /\ Exists(id)
                         /\ outcome \notin {"stale", "store_error"}
                         /\ TruthyNum(prod.target_price)
                         /\ p <= prod.target_price
        IN
        /\ outcome = "committed" => Len(price_history[id]) < MaxRows
        /\ notified => notifyCalls < MaxNotify
        /\ alertDue' = IF qualifies THEN alertDue \cup {id} ELSE alertDue
        /\ products' = ProductsAfterTick(id, p, outcome)
        /\ price_history' = HistoryAfterTick(id, p, outcome)
        /\ price_alerts' = AlertsAfterTick(id, prod, p, sent, outcome)
        /\ notifyCalls' = IF notified THEN notifyCalls + 1 ELSE notifyCalls
        /\ ev' = [Event("track_update", id, outcome)
                    EXCEPT !.price = p, !.target = prod.target_price,
                           !.raised = Propagates(outcome),
                           !.notified = notified,
                           !.sent = notified /\ sent,
                           !.rows = Len(price_history[id]),
                           !.alerts = Len(price_alerts[id]),
                           !.calls = notifyCalls,
                           !.due = id \in alertDue,
                           !.orphan = tick[id].orphan]
    /\ tick' = [tick EXCEPT ![id] = IdleTick]
    /\ UNCHANGED <<scheduler, request, registered>>

Next ==
    \/ \E page \in Pages : AddProduct(page)
    \/ AddHistory
    \/ AddSchedule
    \/ \E user \in Users, id \in ProductIds : GetProduct(user, id)
    \/ GetHistory
    \/ \E user \in Users, id \in ProductIds : DeleteProduct(user, id)
    \/ \E id \in ProductIds : TrackFire(id)
    \/ \E id \in ProductIds : TrackLoad(id)
    \/ \E id \in ProductIds : TrackScrape(id)
    \/ \E id \in ProductIds : TrackUpdate(id)

Spec == Init /\ [][Next]_vars

\* ---- properties ----

LastRow(id) == price_history[id][Len(price_history[id])]

\* the last step was the update step of a tick for a product that is in the
\* store, and no store failure or concurrent delete interfered with it
HealthyUpdate ==
    /\ ev.op = "track_update"
    /\ ev.outcome \notin {"stale", "store_error"}
    /\ Exists(ev.id)

\* C1: after a tick of track_price that scraped a usable price p for a product
\* in the store, the product's current_price is p and exactly one history row,
\* with price p, has been added, whether or not the product has a target price.
C1_PriceAndHistoryUpdated ==
    HealthyUpdate =>
        /\ products[ev.id].current_price = ev.price
        /\ Len(price_history[ev.id]) = ev.rows + 1
        /\ LastRow(ev.id).price = ev.price

\* C2: the load step of a tick, and the scrape step of a tick that gets no
\* usable price (0.0 or None), leave the products, price_history and
\* price_alerts tables unchanged and do not invoke the Notifier; the tick ends
\* at that scrape step.
C2_FailedFetchChangesNothing ==
    [][(\/ ev'.op = "track_load"
        \/ ev'.op = "track_scrape" /\ ev'.price \in {0, None})
       => /\ UNCHANGED <<products, price_history, price_alerts, notifyCalls>>
          /\ ev'.op = "track_scrape" => tick'[ev'.id].pc = "idle"]_vars

C2_Witness ==
    /\ ev.op = "track_scrape"
    /\ ev.price = 0
    /\ Exists(ev.id)
    /\ Len(price_history[ev.id]) >= 1
    /\ tick[ev.id].pc = "idle"

\* every User row carries an email (database.py line 27); the owner's email
\* is the recipient a product can be said to have configured
HasRecipient(id) == products[id].user_id \in Users

\* C3: in the update step of a tick with usable price p, the alert fires
\* (Notifier invoked once, one PriceAlert row with is_triggered added) exactly
\* when the product has a non-null target_price, has a recipient, p is at or
\* below the target and no triggered PriceAlert exists; and when it fires the
\* price and the history row are stored as well.
C3_AlertFiresIffDue ==
    HealthyUpdate =>
        LET due == /\ ev.target # None
                   /\ HasRecipient(ev.id)
                   /\ ev.price <= ev.target
                   /\ ev.alerts = 0
            fired == /\ ev.notified
                     /\ notifyCalls = ev.calls + 1
                     /\ Len(price_alerts[ev.id]) = ev.alerts + 1
        IN /\ fired <=> due
           /\ due => /\ products[ev.id].current_price = ev.price
                     /\ Len(price_history[ev.id]) = ev.rows + 1

\* C4: a tick whose price is at or below the target of a product without a
\* triggered PriceAlert attempts the notification, and when the Notifier
\* returns False the tick adds no PriceAlert row (so the next such tick
\* attempts it again).
C4_FailedSendLeavesNoAlert ==
    (/\ HealthyUpdate
     /\ ev.target # None
     /\ ev.price <= ev.target
     /\ ev.alerts = 0)
    => /\ ev.notified
       /\ ~ev.sent => Len(price_alerts[ev.id]) = ev.alerts

\* C5: once the alert of a product has been due in a tick (so that, by the
\* firing rule, the product has its triggered PriceAlert), every later tick
\* with a usable price p stores p and its history row, adds no PriceAlert row
\* and does not invoke the Notifier; no product ever has two triggered alerts.
C5_NoSecondAlertPriceStillStored ==
    /\ \A id \in ProductIds : Len(price_alerts[id]) <= 1
    /\ (HealthyUpdate /\ ev.due)
       => /\ products[ev.id].current_price = ev.price
          /\ Len(price_history[ev.id]) = ev.rows + 1
          /\ Len(price_alerts[ev.id]) = ev.alerts
          /\ notifyCalls = ev.calls

\* C6: right after delete_product succeeds for the owner, the store has no
\* Product, PriceHistory or PriceAlert row of that id and the scheduler has no
\* job for it.
C6_DeleteCascade ==
    (ev.op = "delete_product" /\ ev.outcome = "deleted")
    => /\ ~Exists(ev.id)
       /\ price_history[ev.id] = <<>>
       /\ price_alerts[ev.id] = <<>>
       /\ ev.id \notin scheduler

C6_Witness ==
    /\ ev.op = "delete_product"
    /\ ev.outcome = "deleted"
    /\ ev.rows >= 2

\* C7: an add_product whose page is unreachable or lacks the title element or
\* the price element is rejected and inserts nothing.
C7_IncompletePageRejected ==
    (ev.op = "add_product" /\ ~ev.complete) => ev.outcome = "rejected"

\* C8: every product in the store has the url and target_price its
\* add_product was given, and a get_product response carries them, whatever
\* ticks ran in between.
C8_RoundTrip ==
    /\ \A id \in ProductIds :
          Exists(id) => /\ products[id].url = registered[id].url
                        /\ products[id].target_price = registered[id].target
    /\ ev.op = "get_history"
       => /\ ev.url = registered[ev.id].url
          /\ ev.target = registered[ev.id].target

C8_Witness ==
    /\ ev.op = "get_history"
    /\ ev.rows >= 2
    /\ ev.url = "urlB"
    /\ ev.target = 0

\* C9: no step of track_price lets an exception out, none removes a scheduler
\* job, and the update step leaves the job's routine finished, ready for the
\* next tick.
C9_TickNeverThrowsJobStays ==
    [][ev'.op \in {"track_load", "track_scrape", "track_update"}
       => /\ ~ev'.raised
          /\ scheduler' = scheduler
          /\ ev'.op = "track_update" => tick'[ev'.id].pc = "idle"]_vars

C9_Witness ==
    /\ ev.op = "track_update"
    /\ ev.outcome \in {"attribute_error", "store_error"}
    /\ ev.id \in scheduler
    /\ tick[ev.id].pc = "idle"

C11_OrphanedTickIsNoOp ==
    /\ (ev.op \in {"track_scrape", "track_update"} /\ ev.orphan)
       => /\ ~ev.raised
          /\ ~ev.notified
          /\ ev.op = "track_update"
             => /\ ev.outcome # "committed"
                /\ Len(price_history[ev.id]) = ev.rows
          /\ ~Exists(ev.id)
             => /\ price_history[ev.id] = <<>>
                /\ price_alerts[ev.id] = <<>>
    /\ (ev.op = "track_load" /\ ev.outcome = "absent")
       => /\ tick[ev.id].pc = "idle"
          /\ price_history[ev.id] = <<>>
          /\ price_alerts[ev.id] = <<>>

\* A tick of product id ended with a usable price and no store failure.
UsableTick(id, e) ==
    /\ e.op = "track_update"
    /\ e.id = id
    /\ e.outcome \notin {"stale", "store_error"}

IsPrefix(s, t) ==
    /\ Len(s) <= Len(t)
    /\ \A i \in 1..Len(s) : s[i] = t[i]

\* C12: PriceHistory is append-only, one row at creation and one per
\* successful re-scrape: in every committed state of the store an existing
\* product has at least one row and its newest row carries its
\* current_price; while the product exists its rows are never changed or
\* removed, a tick that obtained a usable price adds exactly one row, and
\* no other step adds one.
C12_HistoryAppendOnly ==
    [][\A id \in ProductIds :
          /\ products'[id] # NoRow
             => /\ Len(price_history'[id]) >= 1
                /\ price_history'[id][Len(price_history'[id])].price
                       = products'[id].current_price
          /\ (products[id] # NoRow /\ products'[id] # NoRow)
             => /\ IsPrefix(price_history[id], price_history'[id])
                /\ Len(price_history'[id]) =
                       Len(price_history[id])
                           + (IF UsableTick(id, ev') THEN 1 ELSE 0)]_vars

\* the ids of the products in the store
ExistingIds == {id \in ProductIds : products[id] # NoRow}

\* the scheduler holds exactly the jobs of the products in the store
JobsMatchProducts == scheduler = ExistingIds

\* C14 (as claimed): the scheduler's job ids are exactly the ids of the
\* products in the store: a registration that has completed leaves them so,
\* and every delete_product, failing or not, and every step of a tick keeps
\* them so.
C14_JobsExactlyProducts ==
    [][/\ ev'.op = "add_schedule" => JobsMatchProducts'
       /\ (/\ ev'.op \in {"delete_product", "track_fire", "track_load",
                          "track_scrape", "track_update"}
           /\ JobsMatchProducts)
          => JobsMatchProducts']_vars

\* C14 (amended): every job in the scheduler is the job of a product in the
\* store, and a product in the store comes to be without a job in two ways
\* only: add_product has inserted it and not yet scheduled it (it stays so
\* if the commit of its first history row fails), or a delete_product of it
\* failed and rolled back after removing the job.
C14_NoJobWithoutProduct ==
    [][/\ scheduler' \subseteq ExistingIds'
       /\ \A id \in ProductIds :
            (products'[id] # NoRow /\ id \notin scheduler')
            => \/ products[id] # NoRow /\ id \notin scheduler
               \/ ev'.op = "add_product" /\ ev'.id = id
               \/ /\ ev'.op = "delete_product"
                  /\ ev'.outcome = "store_error"
                  /\ ev'.id = id]_vars

\* a delete_product of a registered, scheduled product has failed: the
\* product and its rows are in the store, its job is gone
C14_Witness ==
    /\ ev.op = "delete_product"
    /\ ev.outcome = "store_error"
    /\ Exists(ev.id)
    /\ Len(price_history[ev.id]) >= 1
    /\ registered[ev.id] # NoReg
    /\ ev.id \notin scheduler

====
